---- MODULE Spec2Model ----
(***************************************************************************)
(* A model of the Robo-Uber dispatcher (src/dispatcher.py) and taxi        *)
(* (src/taxi.py).  The world the two agents live in (clock, road network,  *)
(* message relay, pick-up and drop-off) is not part of the sources; the    *)
(* operators whose names start with World model it from the specification. *)
(*                                                                         *)
(* Money is held in units of 1/Unit so that the supply ratio               *)
(* outstandingFares / onDutyTaxis stays an exact integer computation.      *)
(***************************************************************************)
EXTENDS Integers, Sequences, FiniteSets, TLC

VARIABLES simTime, turn, tickOrder, dispatcherMap, fareQ, fareBoard, revenue,
          completedRides, abandonedRides, taxis, calls

vars == <<simTime, turn, tickOrder, dispatcherMap, fareQ, fareBoard, revenue,
          completedRides, abandonedRides, taxis, calls>>

(***************************************************************************)
(* Bounds of the model.                                                    *)
(***************************************************************************)
NumTaxis == 2
MaxFares == 2
MaxTime == 2

(***************************************************************************)
(* Constructor arguments of the taxis of the model (Taxi.__init__), and    *)
(* the service area: two nodes (0,0) and (RoadLength,0) joined by a road.  *)
(***************************************************************************)
IdleLoss == 2
MaxFareWait == 1
RoadLength == 1
\* the longest travel time and the most fares outstanding when pricing is
\* looked at on its own
MaxTravel == 12
MaxQueue == 3
\* the longest edge of the maps the path planner is looked at on
MaxDist == 2
\* the longest neighbour list handed to addMapNode
MaxNeighbours == 2
\* the highest income and the longest idle time of a taxi when the
\* allocation is looked at on its own
MaxIncome == 2
MaxIdle == 2
\* the most calls that build the board, and the most bids made on it, when
\* bidding is looked at on its own
MaxBoard == 3
MaxBids == 2
\* the most calls made to the dispatcher when the sweep of its clock tick is
\* looked at on its own
MaxSweep == 5
\* the longest road of the maps on which the planner is followed iteration
\* by iteration
MaxRoad == 1

TaxiIds == 0 .. (NumTaxis - 1)
Nodes == {<<0, 0>>, <<RoadLength, 0>>}
NoPassenger == [none |-> TRUE]
\* the None that _planPath returns for "no path", and the KeyError it
\* raises: each is written as a path through a place that is no node
NoPath == <<<<-1, -1>>>>
KeyError == <<<<-2, -2>>>>

(***************************************************************************)
(* Generic helpers.                                                        *)
(***************************************************************************)
Min(a, b) == IF a <= b THEN a ELSE b
Max(a, b) == IF a >= b THEN a ELSE b
Abs(a) == IF a < 0 THEN -a ELSE a

RECURSIVE Gcd(_, _)
Gcd(a, b) == IF b = 0 THEN a ELSE Gcd(b, a % b)

RECURSIVE LcmUpTo(_)
LcmUpTo(n) == IF n <= 1 THEN 1
              ELSE LET l == LcmUpTo(n - 1) IN (l * n) \div Gcd(l, n)

\* the money unit: every price (25 + t) * F / T with T <= NumTaxis is a
\* whole number of 1/Unit
Unit == LcmUpTo(NumTaxis)

\* the first of the places of a sequence that make up the set ps, 0 when
\* there is none
FirstIdx(ps) == IF ps = {} THEN 0 ELSE CHOOSE i \in ps : \A j \in ps : i <= j

\* s without its i-th element
RemoveAt(s, i) == SubSeq(s, 1, i - 1) \o SubSeq(s, i + 1, Len(s))

\* Python's list indexing: a negative index counts from the end
PyIndex(s, k) == IF k < 0 THEN s[Len(s) + k + 1] ELSE s[k + 1]


(***************************************************************************)
(* The world's road network (specification section 2, RoadGraph): the      *)
(* travel time between two nodes and the congestion of a node.             *)
(***************************************************************************)
WorldTravelTime(a, b) == Abs(a[1] - b[1]) + Abs(a[2] - b[2])
WorldTraffic(n) == 0

\* the service map every taxi is constructed with: node -> neighbour ->
\* <<direction, distance>>
ServiceMap ==
    [n \in Nodes |->
        [m \in Nodes \ {n} |-> <<0, WorldTravelTime(n, m)>>]]

(***************************************************************************)
(* Taxi: the local fare knowledge and the message handler.                 *)
(* _availableFares is a dict keyed by (time, originx, originy); it is a    *)
(* sequence here, in the dict's insertion order.                           *)
(***************************************************************************)
FareInfo(t, o, d, p) ==
    [time |-> t, origin |-> o, destination |-> d, price |-> p,
     bid |-> 0, allocated |-> FALSE]

\* recvMsg(FARE_ADVICE): a fresh FareInfo under the key (simTime, origin);
\* an existing key keeps its place in the dict and gets the new value
RecvFareAdvice(tx, now, o, d, p) ==
    LET i == FirstIdx({n \in 1 .. Len(tx.fares) : tx.fares[n].time = now /\ tx.fares[n].origin = o})
    IN  IF i = 0
        THEN [tx EXCEPT !.fares = Append(@, FareInfo(now, o, d, p))]
        ELSE [tx EXCEPT !.fares[i] = FareInfo(now, o, d, p)]

\* recvMsg(FARE_ALLOC): the first entry with that origin and destination
\* is marked allocated
RecvFareAlloc(tx, o, d) ==
    LET i == FirstIdx({n \in 1 .. Len(tx.fares) : tx.fares[n].origin = o /\ tx.fares[n].destination = d})
    IN  IF i = 0 THEN tx ELSE [tx EXCEPT !.fares[i].allocated = TRUE]

\* recvMsg(FARE_PAY)
RecvFarePay(tx, amount) == [tx EXCEPT !.account = @ + amount]

\* recvMsg(FARE_CANCEL): the first entry with that origin is deleted
RecvFareCancel(tx, o) ==
    LET i == FirstIdx({n \in 1 .. Len(tx.fares) : tx.fares[n].origin = o})
    IN  IF i = 0 THEN tx ELSE [tx EXCEPT !.fares = RemoveAt(@, i)]

\* Taxi.currentLocation
CurrentLocation(tx) == tx.loc

(***************************************************************************)
(* The world's relay between dispatcher and taxis (specification           *)
(* section 6).  A state of a handler in progress is a record st with the   *)
(* fields board, taxis, fareQ and calls; calls lists the calls the handler *)
(* has made into the world.                                                *)
(***************************************************************************)
\* a call into the world: its name, the fare origin it is about, the taxi
\* it names (-1: none) and its remaining argument (a price or a time)
Call(c, o, i, a) == [call |-> c, origin |-> o, taxi |-> i, arg |-> a]

\* the fare waiting at a node, the world keeps at most one
WaitingAt(q, o) == {f \in q : f.origin = o /\ f.status = "waiting"}

\* broadcastFare(origin, destination, price): the fare is advertised to
\* the taxis on duty, and the waiting fare learns its price
WorldBroadcastFare(st, now, o, d, p) ==
    [st EXCEPT
       !.taxis = [i \in TaxiIds |->
                    IF st.taxis[i].onDuty
                    THEN RecvFareAdvice(st.taxis[i], now, o, d, p)
                    ELSE st.taxis[i]],
       !.fareQ = {IF f \in WaitingAt(st.fareQ, o) /\ f.destination = d
                  THEN [f EXCEPT !.price = p] ELSE f : f \in st.fareQ},
       !.calls = Append(@, Call("broadcastFare", o, -1, p))]

\* allocateFare(origin, taxi): the taxi is told the destination of the
\* fare waiting at the origin
WorldAllocateFare(st, o, i) ==
    LET w == WaitingAt(st.fareQ, o)
        st1 == [st EXCEPT !.calls = Append(@, Call("allocateFare", o, i, 0))]
    IN  IF w = {} THEN st1
        ELSE LET f == CHOOSE f \in w : TRUE
             IN  [st1 EXCEPT !.taxis[i] = RecvFareAlloc(@, o, f.destination)]

\* cancelFare(origin, taxi): the taxi is told that the fare is void
WorldCancelFare(st, o, i) ==
    [st EXCEPT !.taxis[i] = RecvFareCancel(@, o),
               !.calls = Append(@, Call("cancelFare", o, i, 0))]

(***************************************************************************)
(* Dispatcher.  _fareBoard is a dict origin -> destination -> call time -> *)
(* FareEntry; each level is a sequence here, in the dict's insertion       *)
(* order.  The roster _taxis holds every taxi of the model, in the order   *)
(* of their numbers, so a roster index is a taxi number.                   *)
(***************************************************************************)
Roster == [k \in 1 .. NumTaxis |-> k - 1]

\* pricings is a history field, not a field of the class: the number of
\* times clockTick has priced the entry
FareEntry(o, d, t) ==
    [origin |-> o, destination |-> d, calltime |-> t, price |-> 0,
     taxi |-> -1, bidders |-> <<>>, pricings |-> 0]

OriginIdx(b, o) == FirstIdx({n \in 1 .. Len(b) : b[n].origin = o})
DestIdx(ds, d) == FirstIdx({n \in 1 .. Len(ds) : ds[n].destination = d})
TimeIdx(ts, t) == FirstIdx({n \in 1 .. Len(ts) : ts[n].calltime = t})

\* every entry of the board, as a set
BoardEntries(b) ==
    UNION {UNION {{b[i].dests[j].times[k] : k \in 1 .. Len(b[i].dests[j].times)} :
                    j \in 1 .. Len(b[i].dests)} :
             i \in 1 .. Len(b)}

\* newFare: the board after the call, and whether the ride counter was
\* incremented (the pair <<board, counted>>)
newFare(b, o, d, t) ==
    LET i0 == OriginIdx(b, o)
        j0 == IF i0 = 0 THEN 0 ELSE DestIdx(b[i0].dests, d)
        b1 == IF i0 # 0
              THEN IF j0 = 0
                   THEN [b EXCEPT ![i0].dests =
                            Append(@, [destination |-> d, times |-> <<>>])]
                   ELSE b
              ELSE Append(b, [origin |-> o,
                              dests |-> <<[destination |-> d, times |-> <<>>]>>])
        i == OriginIdx(b1, o)
        j == DestIdx(b1[i].dests, d)
        k == TimeIdx(b1[i].dests[j].times, t)
        b2 == IF k = 0
              THEN [b1 EXCEPT ![i].dests[j].times = Append(@, FareEntry(o, d, t))]
              ELSE [b1 EXCEPT ![i].dests[j].times[k] = FareEntry(o, d, t)]
    IN  <<b2, i0 # 0 /\ j0 = 0>>

\* cancelFare without the two deletions of levels left empty
cancelFareKeepLevels(st, o, d, t) ==
    LET b == st.board
        i == OriginIdx(b, o)
        j == IF i = 0 THEN 0 ELSE DestIdx(b[i].dests, d)
        k == IF j = 0 THEN 0 ELSE TimeIdx(b[i].dests[j].times, t)
    IN  IF k = 0 THEN <<st, FALSE>>
        ELSE <<[WorldCancelFare(st, o, PyIndex(Roster, b[i].dests[j].times[k].taxi))
                  EXCEPT !.board = [b EXCEPT ![i].dests[j].times = RemoveAt(@, k)]],
               TRUE>>

\* cancelFare: the handler's state after the call, and whether the entry
\* existed (the pair <<st, found>>)
cancelFare(st, o, d, t) ==
    LET b == st.board
        i == OriginIdx(b, o)
        j == IF i = 0 THEN 0 ELSE DestIdx(b[i].dests, d)
        k == IF j = 0 THEN 0 ELSE TimeIdx(b[i].dests[j].times, t)
    IN  IF j = 0 THEN <<st, FALSE>>
        ELSE
        LET st1 == IF k = 0 THEN st
                   ELSE WorldCancelFare(st, o,
                            PyIndex(Roster, b[i].dests[j].times[k].taxi))
            b1 == IF k = 0 THEN b
                  ELSE [b EXCEPT ![i].dests[j].times = RemoveAt(@, k)]
            b2 == IF Len(b1[i].dests[j].times) = 0
                  THEN [b1 EXCEPT ![i].dests = RemoveAt(@, j)]
                  ELSE b1
            b3 == IF Len(b2[i].dests) = 0 THEN RemoveAt(b2, i) ELSE b2
        IN  <<[st1 EXCEPT !.board = b3], k # 0>>

\* fareBid without the look at the taxi of the fare: the bid goes to the
\* first fare at the origin
fareBidAnyFare(b, o, taxi) ==
    LET i == OriginIdx(b, o)
    IN  IF ~(\E r \in 1 .. Len(Roster) : Roster[r] = taxi) \/ i = 0 THEN b
        ELSE IF b[i].dests[1].times = <<>> THEN b
        ELSE [b EXCEPT ![i].dests[1].times[1].bidders = Append(@, taxi)]

\* fareBid: the taxi's roster index is appended to the bidders of the
\* first unallocated fare found at the origin; taxi is the roster index of
\* the taxi, or a number that is no index when the taxi is not of the roster
fareBid(b, o, taxi) ==
    LET i == OriginIdx(b, o)
    IN  IF ~(\E r \in 1 .. Len(Roster) : Roster[r] = taxi) \/ i = 0 THEN b
        ELSE
        LET open == UNION {{<<j, k>> : k \in {k \in 1 .. Len(b[i].dests[j].times) :
                                                    b[i].dests[j].times[k].taxi = -1}} :
                             j \in 1 .. Len(b[i].dests)}
        IN  IF open = {} THEN b
            ELSE
            LET jk == CHOOSE x \in open :
                        \A y \in open : x[1] < y[1] \/ (x[1] = y[1] /\ x[2] <= y[2])
                r == CHOOSE r \in 1 .. Len(Roster) : Roster[r] = taxi
            IN  [b EXCEPT ![i].dests[jk[1]].times[jk[2]].bidders = Append(@, r - 1)]

\* recvPayment
recvPayment(rev, amount) == rev + amount

\* _computeSupplyRatio without the floor of 1 on the ratio
computeSupplyRatioRaw(q, txs) ==
    LET active_taxis == Cardinality({i \in DOMAIN txs : txs[i].onDuty})
    IN  IF active_taxis = 0 THEN <<1, 0>> ELSE <<Cardinality(q), active_taxis>>

\* _computeSupplyRatio, as the pair <<fares, taxis>> of the ratio
\* fares / taxis; <<1, 0>> stands for float('inf')
computeSupplyRatio(q, txs) ==
    LET total_active_fares == Cardinality(q)
        active_taxis == Cardinality({i \in TaxiIds : txs[i].onDuty})
    IN  IF active_taxis = 0 THEN <<1, 0>>
        ELSE IF total_active_fares > active_taxis
             THEN <<total_active_fares, active_taxis>>
             ELSE <<1, 1>>

\* _costFare, in units of 1/Unit.  With an infinite ratio the calculated
\* fare is infinite (25 + travel time is positive) and the ceiling is
\* the minimum.
costFare(entry, q, txs) ==
    LET travel_time == WorldTravelTime(entry.origin, entry.destination)
        initial_fare == 25
        supply_ratio == computeSupplyRatio(q, txs)
        fare_ceiling == 10 * travel_time * Unit
    IN  IF supply_ratio[2] = 0 THEN fare_ceiling
        ELSE Min(((initial_fare + travel_time) * supply_ratio[1] * Unit)
                     \div supply_ratio[2],
                 fare_ceiling)

\* the priority score with nothing but the distance factor in it
priorityScoreDistance(tx, o, nBidders, now) ==
    LET pickup_duration == WorldTravelTime(CurrentLocation(tx), o)
    IN  IF pickup_duration = 0 THEN <<10, 1>> ELSE <<1, pickup_duration>>

\* the priority score of a bidder in _allocateFare, as the fraction
\* <<numerator, denominator>> of 10000 * priority_score
priorityScore(tx, o, nBidders, now) ==
    LET pickup_duration == WorldTravelTime(CurrentLocation(tx), o)
        \* distance_factor = 1 / pickup_duration, a duration of 0 counts 0.1
        dn == IF pickup_duration = 0 THEN 10 ELSE 1
        dd == IF pickup_duration = 0 THEN 1 ELSE pickup_duration
        idle_duration == now - tx.lastFareCompletionTime
        en == 1 + tx.income
        cn == 1 + nBidders
        den == dd * en * cn
    IN  <<4000 * dn * en * cn + 3000 * dd * cn + 2 * idle_duration * den
            + 1000 * dd * en,
          den>>

\* the comparison priority_score > highest_priority of two such fractions
ScoreGreater(a, b) == a[1] * b[2] > b[1] * a[2]

\* the test of _allocateFare without the look at the account
eligibleOnDuty(tx) == tx.onDuty

\* whether _allocateFare considers a bidder at all
eligible(tx) == tx.onDuty /\ tx.account > 0

\* the loop of _allocateFare over the bidders: best is <<selected_taxi,
\* highest_priority>>, a selected_taxi of -1 stands for None
RECURSIVE selectTaxi(_, _, _, _, _, _)
selectTaxi(bidders, n, best, txs, o, now) ==
    IF n > Len(bidders) THEN best[1]
    ELSE
    LET taxi_number == bidders[n]
        score == priorityScore(PyIndex(txs, taxi_number), o, Len(bidders), now)
        better == /\ taxi_number < Len(Roster)
                  /\ eligible(PyIndex(txs, taxi_number))
                  /\ (best[1] = -1 \/ ScoreGreater(score, best[2]))
    IN  selectTaxi(bidders, n + 1,
                   IF better THEN <<taxi_number, score>> ELSE best,
                   txs, o, now)

\* _allocateFare that selects the first bidder whatever its state
allocateFareFirstBidder(st, i, j, k, now) ==
    LET entry == st.board[i].dests[j].times[k]
        selected_taxi == entry.bidders[1]
    IN  WorldAllocateFare(
            [st EXCEPT !.board[i].dests[j].times[k].taxi = selected_taxi],
            entry.origin, PyIndex(Roster, selected_taxi))

\* _allocateFare on the entry at the indices i, j, k of the board
allocateFare(st, i, j, k, now) ==
    LET entry == st.board[i].dests[j].times[k]
        txs == [r \in 1 .. NumTaxis |-> st.taxis[Roster[r]]]
        selected_taxi == selectTaxi(entry.bidders, 1, <<-1, <<0, 1>>>>, txs,
                                    entry.origin, now)
    IN  IF selected_taxi = -1 THEN st
        ELSE WorldAllocateFare(
                 [st EXCEPT !.board[i].dests[j].times[k].taxi = selected_taxi],
                 entry.origin, PyIndex(Roster, selected_taxi))

\* the call times of one (origin, destination) pair as the dict holds them,
\* in the order of their insertion
insertedTimes(ts, left) == [k \in 1 .. Cardinality(left) |-> k]

\* the call times of one (origin, destination) pair in ascending order,
\* as the sequence of their indices
RECURSIVE sortedTimes(_, _)
sortedTimes(ts, left) ==
    IF left = {} THEN <<>>
    ELSE LET k == CHOOSE k \in left :
                    \A m \in left : ts[k].calltime <= ts[m].calltime
         IN  <<k>> \o sortedTimes(ts, left \ {k})

\* the body of clockTick's loops with the allocation branch taken for an
\* entry that already has a taxi
tickEntryAnyTaxi(st, i, j, k, now) ==
    LET entry == st.board[i].dests[j].times[k]
    IN  IF entry.price = 0
        THEN LET p == costFare(entry, st.fareQ, st.taxis)
             IN  WorldBroadcastFare(
                     [st EXCEPT !.board[i].dests[j].times[k].price = p,
                                !.board[i].dests[j].times[k].pricings = @ + 1],
                     now, entry.origin, entry.destination, p)
        ELSE IF Len(entry.bidders) > 0
             THEN allocateFare(st, i, j, k, now)
             ELSE st

\* the body of clockTick's loops with an if in the place of the elif: an
\* entry that has just been priced is looked at for allocation as well
tickEntryPriceThenAllocate(st, i, j, k, now) ==
    LET entry == st.board[i].dests[j].times[k]
        p == costFare(entry, st.fareQ, st.taxis)
        st1 == IF entry.price = 0
               THEN WorldBroadcastFare(
                        [st EXCEPT !.board[i].dests[j].times[k].price = p,
                                   !.board[i].dests[j].times[k].pricings = @ + 1],
                        now, entry.origin, entry.destination, p)
               ELSE st
    IN  IF entry.taxi < 0 /\ Len(entry.bidders) > 0
        THEN allocateFare(st1, i, j, k, now)
        ELSE st1

\* the body of clockTick's loops for one entry
tickEntry(st, i, j, k, now) ==
    LET entry == st.board[i].dests[j].times[k]
    IN  IF entry.price = 0
        THEN LET p == costFare(entry, st.fareQ, st.taxis)
             IN  WorldBroadcastFare(
                     [st EXCEPT !.board[i].dests[j].times[k].price = p,
                                !.board[i].dests[j].times[k].pricings = @ + 1],
                     now, entry.origin, entry.destination, p)
        ELSE IF entry.taxi < 0 /\ Len(entry.bidders) > 0
             THEN allocateFare(st, i, j, k, now)
             ELSE st

RECURSIVE tickTimes(_, _, _, _, _)
tickTimes(st, i, j, order, now) ==
    IF order = <<>> THEN st
    ELSE tickTimes(tickEntry(st, i, j, Head(order), now), i, j, Tail(order), now)

RECURSIVE tickDests(_, _, _, _)
tickDests(st, i, j, now) ==
    IF j > Len(st.board[i].dests) THEN st
    ELSE LET ts == st.board[i].dests[j].times
         IN  tickDests(tickTimes(st, i, j, sortedTimes(ts, 1 .. Len(ts)), now),
                       i, j + 1, now)

\* Dispatcher.clockTick
RECURSIVE dispatcherClockTick(_, _, _)
dispatcherClockTick(st, i, now) ==
    IF i > Len(st.board) THEN st
    ELSE dispatcherClockTick(tickDests(st, i, 1, now), i + 1, now)

(***************************************************************************)
(* Taxi._planPath: A* over the taxi's map.  The open list is a heap of     *)
(* (estimate, node) pairs; it is the set of those pairs here, and the pop  *)
(* takes the least pair in Python's tuple order.  cost_from_start holds    *)
(* only the nodes whose cost is finite; its keys in the code are the keys  *)
(* of the map, so that looking up a neighbour that is no key of the map    *)
(* raises KeyError.                                                        *)
(***************************************************************************)

\* math.sqrt on the squared distances of the model's maps, which are
\* perfect squares
Sqrt(n) == CHOOSE r \in 0 .. n : r * r = n

calculate_heuristic(a, b) ==
    Sqrt((a[1] - b[1]) * (a[1] - b[1]) + (a[2] - b[2]) * (a[2] - b[2]))

\* Python's order on (estimate, (x, y)) tuples
TupleLess(p, q) ==
    \/ p[1] < q[1]
    \/ /\ p[1] = q[1]
       /\ \/ p[2][1] < q[2][1]
          \/ p[2][1] = q[2][1] /\ p[2][2] < q[2][2]

RECURSIVE tracePath(_, _)
tracePath(path_trace, current_node) ==
    IF current_node \in DOMAIN path_trace
    THEN tracePath(path_trace, path_trace[current_node]) \o <<current_node>>
    ELSE <<current_node>>

\* the neighbours of current_node the loop records a new cost for when it
\* tests new_cost <= cost_from_start[neighbor]
relaxedOrEqual(map, cost_from_start, current_node) ==
    {nb \in DOMAIN map[current_node] :
       \/ nb \notin DOMAIN cost_from_start
       \/ cost_from_start[current_node] + map[current_node][nb][2]
              <= cost_from_start[nb]}

\* the neighbours of current_node the loop records a new cost for: a node
\* that has no cost yet stands at float("inf")
relaxed(map, cost_from_start, current_node) ==
    {nb \in DOMAIN map[current_node] :
       \/ nb \notin DOMAIN cost_from_start
       \/ cost_from_start[current_node] + map[current_node][nb][2]
              < cost_from_start[nb]}

RECURSIVE explore(_, _, _, _, _)
explore(map, destination, to_explore, cost_from_start, path_trace) ==
    IF to_explore = {} THEN NoPath
    ELSE
    LET top == CHOOSE p \in to_explore :
                   \A q \in to_explore : p = q \/ TupleLess(p, q)
        current_node == top[2]
        better == relaxed(map, cost_from_start, current_node)
        new_cost == [nb \in better |->
                        cost_from_start[current_node] + map[current_node][nb][2]]
    IN  IF current_node = destination
        THEN tracePath(path_trace, current_node)
        ELSE IF \E nb \in DOMAIN map[current_node] : nb \notin DOMAIN map
        THEN KeyError
        ELSE explore(map, destination,
                     (to_explore \ {top}) \cup
                         {<<new_cost[nb] + calculate_heuristic(nb, destination), nb>> :
                             nb \in better},
                     new_cost @@ cost_from_start,
                     [nb \in better |-> current_node] @@ path_trace)

planPath(map, origin, destination) ==
    IF origin \notin DOMAIN map \/ destination \notin DOMAIN map THEN NoPath
    ELSE IF origin = destination THEN <<origin>>
    ELSE explore(map, destination, {<<0, origin>>}, origin :> 0, <<>>)

(***************************************************************************)
(* _planPath one iteration at a time.  A search is the record of the       *)
(* locals of the call: pc is "idle" before the call, "loop" in the loop    *)
(* over to_explore, "trace" in the loop that builds the path, and "done"   *)
(* once the call has returned or raised, path holding the outcome.         *)
(***************************************************************************)
IdleSearch ==
    [pc |-> "idle", origin |-> <<0, 0>>, destination |-> <<0, 0>>,
     to_explore |-> {}, cost_from_start |-> <<>>, path_trace |-> <<>>,
     current_node |-> <<0, 0>>, path |-> <<>>]

\* the call up to the loop
searchCall(map, origin, destination) ==
    LET s == [IdleSearch EXCEPT !.origin = origin, !.destination = destination]
    IN  IF origin \notin DOMAIN map \/ destination \notin DOMAIN map
        THEN [s EXCEPT !.pc = "done", !.path = NoPath]
        ELSE IF origin = destination
        THEN [s EXCEPT !.pc = "done", !.path = <<origin>>]
        ELSE [s EXCEPT !.pc = "loop", !.to_explore = {<<0, origin>>},
                       !.cost_from_start = origin :> 0]

\* one iteration of while to_explore
searchIterate(map, s) ==
    IF s.to_explore = {} THEN [s EXCEPT !.pc = "done", !.path = NoPath]
    ELSE
    LET top == CHOOSE p \in s.to_explore :
                   \A q \in s.to_explore : p = q \/ TupleLess(p, q)
        current_node == top[2]
        better == relaxed(map, s.cost_from_start, current_node)
        new_cost == [nb \in better |->
                        s.cost_from_start[current_node] + map[current_node][nb][2]]
    IN  IF current_node = s.destination
        THEN [s EXCEPT !.pc = "trace", !.to_explore = @ \ {top},
                       !.current_node = current_node, !.path = <<current_node>>]
        ELSE IF \E nb \in DOMAIN map[current_node] : nb \notin DOMAIN map
        THEN [s EXCEPT !.pc = "done", !.path = KeyError]
        ELSE [s EXCEPT
                !.to_explore = (@ \ {top}) \cup
                    {<<new_cost[nb] + calculate_heuristic(nb, s.destination), nb>> :
                        nb \in better},
                !.cost_from_start = new_cost @@ @,
                !.path_trace = [nb \in better |-> current_node] @@ @,
                !.current_node = current_node]

\* one iteration of while current_node in path_trace, and the return of
\* path[::-1] when the loop ends
searchTrace(s) ==
    IF s.current_node \in DOMAIN s.path_trace
    THEN [s EXCEPT !.current_node = s.path_trace[s.current_node],
                   !.path = Append(@, s.path_trace[s.current_node])]
    ELSE [s EXCEPT !.pc = "done",
                   !.path = [n \in 1 .. Len(s.path) |-> s.path[Len(s.path) + 1 - n]]]

(***************************************************************************)
(* Taxi._bidOnFare.  The float comparisons are made exact by clearing      *)
(* denominators: prices are in units of 1/Unit, the traffic multiplier is  *)
(* (10 + traffic) / 10, and 1.1 * 1.5 is 33 / 20.                          *)
(***************************************************************************)
AnyAllocated(fares) == \E n \in 1 .. Len(fares) : fares[n].allocated

\* the first test of _bidOnFare looking at the passenger only
committedPassenger(tx) == tx.passenger # NoPassenger

\* the first test of _bidOnFare: a passenger aboard or a fare allocated
committed(tx) == tx.passenger # NoPassenger \/ AnyAllocated(tx.fares)

bidOnFare(tx, now, time, origin, destination, price) ==
    LET travel_to_origin == WorldTravelTime(CurrentLocation(tx), origin)
        travel_to_destination == WorldTravelTime(origin, destination)
        \* 10 * traffic_multiplier
        mult == 10 + WorldTraffic(origin)
        time_until_expiry == tx.maxFareWait - (now - time)
        \* 300 * proximity_score
        prox == Max(0, 300 - travel_to_origin * mult)
        idle == now - tx.lastFareCompletionTime
        \* 30000 * dynamic_threshold
        threshold == IF tx.income < 100 THEN 15000 ELSE 21000
    IN  IF committed(tx) THEN FALSE
        ELSE IF 200 * price
                  < 33 * Unit * (travel_to_origin + travel_to_destination) * mult
        THEN FALSE
        ELSE IF travel_to_origin * mult > 10 * time_until_expiry THEN FALSE
        ELSE (40 * prox + 9 * idle) * (1 + tx.income) + 9000
                 > threshold * (1 + tx.income)

(***************************************************************************)
(* The world's side of a taxi's tick (specification section 6): the bid    *)
(* relay, and the pick-up and drop-off requests against a node.            *)
(***************************************************************************)
\* transmitFareBid(origin, taxi): the bid is handed to the dispatcher
WorldTransmitFareBid(st, o, i, t) ==
    [st EXCEPT !.board = fareBid(@, o, i),
               !.calls = Append(@, Call("transmitFareBid", o, i, t))]

FareKey(f) == [origin |-> f.origin, destination |-> f.destination,
               calltime |-> f.calltime]

\* dropoffFare succeeds at the passenger's destination; the fare then
\* waits for the world to settle its payment
WorldDropoffOk(tx) == tx.loc = tx.passenger.destination

WorldDropoff(q, i, key) ==
    {IF FareKey(f) = key /\ f.status = "riding" /\ f.taxi = i
     THEN [f EXCEPT !.status = "arrived"] ELSE f : f \in q}

\* pickupFare hands over the fare waiting at the node, if there is one
WorldPickup(q, i, f) ==
    (q \ {f}) \cup {[f EXCEPT !.status = "riding", !.taxi = i]}

(***************************************************************************)
(* Taxi.clockTick.                                                         *)
(***************************************************************************)
\* the first step: off duty once the account is used up
goOffDuty(tx, now) ==
    IF tx.account <= 0 /\ tx.passenger = NoPassenger
    THEN [tx EXCEPT !.onDuty = FALSE, !.offDutyTime = now]
    ELSE tx

\* self._path = self._planPath(...): the path is assigned, None included,
\* unless _planPath raises, and then the handler ends with the exception
assignPath(st, i, p) ==
    IF p = KeyError THEN [st EXCEPT !.taxis[i].raised = "KeyError"]
    ELSE [st EXCEPT !.taxis[i].path = p]

\* the second step: at the end of the path with a passenger aboard
dropOrReplan(st, i) ==
    LET tx == st.taxis[i]
    IN  IF Len(tx.path) = 0 /\ tx.passenger # NoPassenger
        THEN IF WorldDropoffOk(tx)
             THEN [st EXCEPT !.taxis[i].passenger = NoPassenger,
                             !.fareQ = WorldDropoff(@, i, tx.passenger)]
             ELSE assignPath(st, i, planPath(tx.map, tx.loc, tx.passenger.destination))
        ELSE st

\* the staleness test with the two times exchanged
staleReversed(tx, f, now) == f.time - now > tx.maxFareWait

\* whether the loop discards an entry as stale
stale(tx, f, now) == now - f.time > tx.maxFareWait

\* the test of the bid flag that bids on every entry not declined
bidAgain(f) == f.bid >= 0

\* the test of the bid flag: no decision on the entry yet
undecided(f) == f.bid = 0

\* the loop over _availableFares: n is the entry's place in the dict,
\* remove the places of faresToRemove
RECURSIVE fareLoop(_, _, _, _, _)
fareLoop(st, i, n, remove, now) ==
    LET tx == st.taxis[i] IN
    IF n > Len(tx.fares) \/ tx.raised # "" THEN <<st, remove>>
    \* len(self._path) of a path that is None
    ELSE IF tx.path = NoPath THEN <<[st EXCEPT !.taxis[i].raised = "TypeError"], remove>>
    ELSE
    LET f == tx.fares[n]
        w == WaitingAt(st.fareQ, f.origin)
    IN  IF Len(tx.path) = 0 /\ f.allocated /\ tx.passenger = NoPassenger
        THEN IF tx.loc = f.origin
             THEN IF w # {}
                  THEN LET p == CHOOSE x \in w : TRUE
                       IN  fareLoop(
                             assignPath(
                                [st EXCEPT !.taxis[i].passenger = FareKey(p),
                                           !.fareQ = WorldPickup(@, i, p)],
                                i, planPath(tx.map, tx.loc, p.destination)),
                             i, n + 1, remove \cup {n}, now)
                  ELSE fareLoop(st, i, n + 1, remove \cup {n}, now)
             ELSE fareLoop(
                    assignPath(st, i, planPath(tx.map, tx.loc, f.origin)),
                    i, n + 1, remove, now)
        ELSE IF stale(tx, f, now)
        THEN fareLoop(st, i, n + 1, remove \cup {n}, now)
        ELSE IF undecided(f)
        THEN IF bidOnFare(tx, now, f.time, f.origin, f.destination, f.price)
             THEN fareLoop(
                    WorldTransmitFareBid(
                        [st EXCEPT !.taxis[i].fares[n].bid = 1],
                        f.origin, i, f.time),
                    i, n + 1, remove, now)
             ELSE fareLoop([st EXCEPT !.taxis[i].fares[n].bid = -1],
                           i, n + 1, remove, now)
        ELSE fareLoop(st, i, n + 1, remove, now)

\* the entries that are left once faresToRemove is deleted
RECURSIVE keepFares(_, _, _)
keepFares(fares, n, remove) ==
    IF n > Len(fares) THEN <<>>
    ELSE (IF n \in remove THEN <<>> ELSE <<fares[n]>>)
             \o keepFares(fares, n + 1, remove)

\* Taxi.clockTick; an exception ends the handler where it is raised, with
\* the assignments made so far and without those that follow
taxiClockTick(st, i, now) ==
    LET st1 == [st EXCEPT !.taxis[i] = goOffDuty(@, now)]
        st2 == dropOrReplan(st1, i)
        r == fareLoop(st2, i, 1, {}, now)
    IN  \* len(self._path) of a path that is None
        IF st1.taxis[i].path = NoPath
        THEN [st1 EXCEPT !.taxis[i].raised = "TypeError"]
        ELSE IF st2.taxis[i].raised # "" THEN st2
        ELSE IF r[1].taxis[i].raised # "" THEN r[1]
        ELSE [r[1] EXCEPT !.taxis[i].fares = keepFares(@, 1, r[2]),
                          !.taxis[i].account = @ - Unit]

\* Taxi.comeOnDuty; the world places the taxi at its start point
comeOnDuty(tx, time) ==
    IF tx.offDutyTime = 0 \/ (time >= tx.onDutyTime /\ time < tx.offDutyTime)
    THEN [tx EXCEPT !.account = IF @ <= 0 THEN tx.dailyLoss * Unit ELSE @,
                    !.onDuty = TRUE,
                    !.loc = tx.onDutyPos]
    ELSE tx

\* Taxi.drive, with the world granting every move: a waypoint the taxi
\* stands on is popped, and the taxi moves on to the next one
drive(tx) ==
    LET p == IF tx.path # <<>> /\ Head(tx.path) = tx.loc
             THEN Tail(tx.path) ELSE tx.path
    IN  \* len(self._path) of a path that is None
        IF tx.path = NoPath THEN [tx EXCEPT !.raised = "TypeError"]
        ELSE IF p = <<>> THEN [tx EXCEPT !.path = p]
        ELSE [tx EXCEPT !.loc = Head(p), !.path = Tail(p)]

(***************************************************************************)
(* The state machine.                                                      *)
(***************************************************************************)
\* Taxi.__init__ with no start point: the first node of the map from the
\* top left corner, which is (0,0) in the service area of the model.  The
\* last taxi is constructed with idle_loss = IdleLoss and each taxi before
\* it with one more than the next, so that the taxis do not all run out of
\* money in the same tick.  raised is not a field of the class: it names
\* the exception that has ended a handler of the taxi, "" while none has.
\* search is not a field either: the locals of a call of _planPath that is
\* followed iteration by iteration.
Taxi(i) ==
    [onDuty |-> FALSE, onDutyTime |-> 0, offDutyTime |-> 0,
     onDutyPos |-> <<0, 0>>, dailyLoss |-> IdleLoss + (NumTaxis - 1 - i),
     maxFareWait |-> MaxFareWait,
     account |-> 0, loc |-> <<0, 0>>, lastFareCompletionTime |-> 0, income |-> 0,
     passenger |-> NoPassenger, map |-> ServiceMap, path |-> <<>>,
     fares |-> <<>>, raised |-> "", search |-> IdleSearch]

\* the orders in which the world may keep its taxis
TickOrders ==
    {s \in [1 .. NumTaxis -> TaxiIds] :
        \A a, b \in 1 .. NumTaxis : s[a] = s[b] => a = b}

Init ==
    /\ simTime = 0
    /\ turn = 0
    /\ tickOrder \in TickOrders
    /\ dispatcherMap = ServiceMap
    /\ fareQ = {}
    /\ fareBoard = <<>>
    /\ revenue = 0
    /\ completedRides = 0
    /\ abandonedRides = 0
    /\ taxis = [i \in TaxiIds |-> Taxi(i)]
    /\ calls = <<>>

\* the handler state the dispatcher and the taxis work on
Now == [board |-> fareBoard, taxis |-> taxis, fareQ |-> fareQ, calls |-> <<>>]

Commit(st) ==
    /\ fareBoard' = st.board
    /\ taxis' = st.taxis
    /\ fareQ' = st.fareQ
    /\ calls' = st.calls

\* the world's clock: a step of the simulation ticks the dispatcher, then
\* every taxi in the world's order, then advances the time.  turn is 0 when
\* the dispatcher is next, k when taxi tickOrder[k] is next, and
\* NumTaxis + 1 at the end of the step.
AdvanceTime ==
    /\ turn = NumTaxis + 1
    /\ simTime < MaxTime
    /\ simTime' = simTime + 1
    /\ turn' = 0
    /\ calls' = <<>>
    /\ UNCHANGED <<tickOrder, dispatcherMap, fareQ, fareBoard, revenue, completedRides,
                   abandonedRides, taxis>>

\* a fare appears at a node without one and calls the dispatcher
NewFare(o, d) ==
    /\ WaitingAt(fareQ, o) = {}
    /\ Cardinality(BoardEntries(fareBoard)) + abandonedRides < MaxFares
    /\ LET r == newFare(fareBoard, o, d, simTime)
       IN  /\ fareBoard' = r[1]
           /\ completedRides' = IF r[2] THEN completedRides + 1 ELSE completedRides
    /\ fareQ' = fareQ \cup {[origin |-> o, destination |-> d, calltime |-> simTime,
                             price |-> 0, status |-> "waiting", taxi |-> -1]}
    /\ calls' = <<>>
    /\ UNCHANGED <<simTime, turn, tickOrder, dispatcherMap, revenue, abandonedRides, taxis>>

\* a waiting fare gives up and cancels its request
CancelFare(f) ==
    /\ f.status = "waiting"
    /\ LET r == cancelFare(Now, f.origin, f.destination, f.calltime)
       IN  /\ Commit([r[1] EXCEPT !.fareQ = @ \ {f}])
           /\ abandonedRides' = IF r[2] THEN abandonedRides + 1 ELSE abandonedRides
    /\ UNCHANGED <<simTime, turn, tickOrder, dispatcherMap, revenue, completedRides>>

\* the world settles an arrived fare: the taxi and the dispatcher are paid
PayFare(f) ==
    /\ f.status = "arrived"
    /\ taxis' = [taxis EXCEPT ![f.taxi] = RecvFarePay(@, f.price)]
    /\ revenue' = recvPayment(revenue, f.price)
    /\ fareQ' = fareQ \ {f}
    /\ calls' = <<>>
    /\ UNCHANGED <<simTime, turn, tickOrder, dispatcherMap, fareBoard, completedRides, abandonedRides>>

DispatcherTick ==
    /\ turn = 0
    /\ Commit(dispatcherClockTick(Now, 1, simTime))
    /\ turn' = 1
    /\ UNCHANGED <<simTime, tickOrder, dispatcherMap, revenue, completedRides, abandonedRides>>

\* the world moves a taxi on duty before it ticks it
Drive(i) ==
    /\ turn \in 1 .. NumTaxis
    /\ tickOrder[turn] = i
    /\ taxis[i].onDuty
    /\ taxis[i].path # <<>>
    /\ taxis' = [taxis EXCEPT ![i] = drive(@)]
    /\ calls' = <<>>
    /\ UNCHANGED <<simTime, turn, tickOrder, dispatcherMap, fareQ, fareBoard, revenue, completedRides,
                   abandonedRides>>

TaxiTick(i) ==
    /\ turn \in 1 .. NumTaxis
    /\ tickOrder[turn] = i
    /\ taxis[i].onDuty
    /\ Commit(taxiClockTick(Now, i, simTime))
    /\ turn' = turn + 1
    /\ UNCHANGED <<simTime, tickOrder, dispatcherMap, revenue, completedRides, abandonedRides>>

\* the world brings a taxi that is off duty into service
ComeOnDuty(i) ==
    /\ ~taxis[i].onDuty
    /\ taxis' = [taxis EXCEPT ![i] = comeOnDuty(@, simTime)]
    /\ calls' = <<>>
    /\ UNCHANGED <<simTime, turn, tickOrder, dispatcherMap, fareQ, fareBoard, revenue, completedRides,
                   abandonedRides>>

\* a taxi that is off duty is not ticked
StayOffDuty(i) ==
    /\ turn \in 1 .. NumTaxis
    /\ tickOrder[turn] = i
    /\ ~taxis[i].onDuty
    /\ turn' = turn + 1
    /\ calls' = <<>>
    /\ UNCHANGED <<simTime, tickOrder, dispatcherMap, fareQ, fareBoard, revenue, completedRides,
                   abandonedRides, taxis>>

Next ==
    \/ AdvanceTime
    \/ \E o \in Nodes, d \in Nodes : NewFare(o, d)
    \/ \E f \in fareQ : CancelFare(f)
    \/ \E f \in fareQ : PayFare(f)
    \/ DispatcherTick
    \/ \E i \in TaxiIds : Drive(i)
    \/ \E i \in TaxiIds : TaxiTick(i)
    \/ \E i \in TaxiIds : ComeOnDuty(i)
    \/ \E i \in TaxiIds : StayOffDuty(i)

Spec == Init /\ [][Next]_vars

(***************************************************************************)
(* Pricing on its own: a tick of the dispatcher over a board with one      *)
(* unpriced fare, for a range of travel times, fares outstanding and taxis *)
(* on duty.  The other fares wait at nodes of their own and have their     *)
(* prices already.                                                         *)
(***************************************************************************)
\* the board and the fare queue after newFare for a fare from o to d
Request(b, q, o, d) ==
    [board |-> newFare(b, o, d, 0)[1],
     fareQ |-> q \cup {[origin |-> o, destination |-> d, calltime |-> 0,
                        price |-> 0, status |-> "waiting", taxi |-> -1]}]

\* n fares that have called from the nodes (0,1) .. (0,n)
RECURSIVE Requests(_)
Requests(n) ==
    IF n = 0 THEN [board |-> <<>>, fareQ |-> {}]
    ELSE LET r == Requests(n - 1)
         IN  Request(r.board, r.fareQ, <<0, n>>, <<0, 0>>)

InitPrice ==
    /\ simTime = 0
    /\ turn = 0
    /\ tickOrder = Roster
    /\ dispatcherMap = ServiceMap
    /\ revenue = 0
    /\ completedRides = 0
    /\ abandonedRides = 0
    /\ calls = <<>>
    /\ \E duty \in SUBSET TaxiIds :
          taxis = [i \in TaxiIds |->
                     IF i \in duty THEN comeOnDuty(Taxi(i), 0) ELSE Taxi(i)]
    /\ \E n \in 0 .. (MaxQueue - 1), tt \in 0 .. MaxTravel :
          LET st == [board |-> Requests(n).board, fareQ |-> Requests(n).fareQ,
                     taxis |-> [i \in TaxiIds |-> Taxi(i)], calls |-> <<>>]
              \* an earlier tick with no taxi on duty has priced the n fares
              r == dispatcherClockTick(st, 1, 0)
              q == Request(r.board, r.fareQ, <<0, 0>>, <<tt, 0>>)
          IN  fareBoard = q.board /\ fareQ = q.fareQ

NextPrice == DispatcherTick

SpecPrice == InitPrice /\ [][NextPrice]_vars

(***************************************************************************)
(* The path planner on its own: taxi 0 holds any map over three nodes of   *)
(* one road, every node with any of the others as neighbours at any edge   *)
(* distance up to MaxDist, and plans between any two of them.  The last    *)
(* plan is kept in the taxi's path, the request in calls.                  *)
(***************************************************************************)
PlanNodes == {<<0, 0>>, <<1, 0>>, <<3, 0>>}

\* the neighbour dictionaries a node n may have: neighbour -> <<direction,
\* distance>>
NeighbourDicts(n) ==
    UNION {[nbs -> {<<0, d>> : d \in 0 .. MaxDist}] : nbs \in SUBSET (PlanNodes \ {n})}

InitPlan ==
    /\ simTime = 0
    /\ turn = 0
    /\ tickOrder = Roster
    /\ dispatcherMap = ServiceMap
    /\ fareQ = {}
    /\ fareBoard = <<>>
    /\ revenue = 0
    /\ completedRides = 0
    /\ abandonedRides = 0
    /\ calls = <<>>
    /\ \E keys \in SUBSET PlanNodes :
       \E m \in [PlanNodes -> UNION {NeighbourDicts(n) : n \in PlanNodes}] :
          /\ \A n \in PlanNodes : m[n] \in NeighbourDicts(n)
          /\ taxis = [i \in TaxiIds |->
                        IF i = 0 THEN [Taxi(i) EXCEPT !.map = [n \in keys |-> m[n]]]
                        ELSE Taxi(i)]

\* taxi 0 plans a path from o to d
PlanPath(o, d) ==
    /\ taxis' = [taxis EXCEPT ![0].path = planPath(taxis[0].map, o, d)]
    /\ calls' = <<Call("planPath", o, 0, d)>>
    /\ UNCHANGED <<simTime, turn, tickOrder, dispatcherMap, fareQ, fareBoard, revenue,
                   completedRides, abandonedRides>>

NextPlan == \E o \in PlanNodes, d \in PlanNodes : PlanPath(o, d)

SpecPlan == InitPlan /\ [][NextPlan]_vars

(***************************************************************************)
(* The planner's loops on their own: taxi 0 holds any map over the nodes   *)
(* PlanNodes and makes one call of _planPath, which is followed iteration  *)
(* by iteration.  The code is sequential: a call that can take a step      *)
(* takes it.                                                               *)
(***************************************************************************)
\* the neighbour dictionaries of n with roads of length 0 .. MaxRoad
SearchDicts(n) ==
    {f \in NeighbourDicts(n) : \A nb \in DOMAIN f : f[nb][2] <= MaxRoad}

InitSearch ==
    /\ simTime = 0
    /\ turn = 0
    /\ tickOrder = Roster
    /\ dispatcherMap = ServiceMap
    /\ fareQ = {}
    /\ fareBoard = <<>>
    /\ revenue = 0
    /\ completedRides = 0
    /\ abandonedRides = 0
    /\ calls = <<>>
    /\ \E keys \in SUBSET PlanNodes :
       \E m \in [PlanNodes -> UNION {SearchDicts(n) : n \in PlanNodes}] :
          /\ \A n \in PlanNodes : m[n] \in SearchDicts(n)
          /\ taxis = [i \in TaxiIds |->
                        IF i = 0 THEN [Taxi(i) EXCEPT !.map = [n \in keys |-> m[n]]]
                        ELSE Taxi(i)]

SearchCall(o, d) ==
    /\ taxis[0].search.pc = "idle"
    /\ taxis' = [taxis EXCEPT ![0].search = searchCall(taxis[0].map, o, d)]
    /\ calls' = <<Call("planPath", o, 0, d)>>
    /\ UNCHANGED <<simTime, turn, tickOrder, dispatcherMap, fareQ, fareBoard, revenue,
                   completedRides, abandonedRides>>

SearchIterate ==
    /\ taxis[0].search.pc = "loop"
    /\ taxis' = [taxis EXCEPT ![0].search = searchIterate(taxis[0].map, @)]
    /\ UNCHANGED <<simTime, turn, tickOrder, dispatcherMap, fareQ, fareBoard, revenue,
                   completedRides, abandonedRides, calls>>

SearchTrace ==
    /\ taxis[0].search.pc = "trace"
    /\ taxis' = [taxis EXCEPT ![0].search = searchTrace(@)]
    /\ UNCHANGED <<simTime, turn, tickOrder, dispatcherMap, fareQ, fareBoard, revenue,
                   completedRides, abandonedRides, calls>>

NextSearch ==
    \/ \E o \in PlanNodes, d \in PlanNodes : SearchCall(o, d)
    \/ SearchIterate
    \/ SearchTrace

SpecSearch == InitSearch /\ [][NextSearch]_vars

FairSpecSearch == SpecSearch /\ WF_vars(NextSearch)

(***************************************************************************)
(* Map import of the taxi and of the dispatcher (importMap, addMapNode).   *)
(* The world (specification section 2, RoadGraph) knows the nodes          *)
(* PlanNodes: getNode gives None for any other place, and distance2Node    *)
(* the length of the road between two nodes.  A map is a function from     *)
(* nodes to neighbour dictionaries, neighbour -> <<direction, distance>>.  *)
(***************************************************************************)
WorldGetNode(n) == n \in PlanNodes
WorldDistance2Node(a, b) == Abs(a[1] - b[1]) + Abs(a[2] - b[2])

\* the None a dispatcher without a service map holds, written as a map of a
\* place that is no node
NoMap == [n \in {<<-1, -1>>} |-> <<>>]

\* the dictionary addMapNode builds from a list of <<direction, x, y>>
\* neighbours, a later neighbour replacing an earlier one at the same place
RECURSIVE neighbourDict(_, _)
neighbourDict(coords, neighbours) ==
    IF neighbours = <<>> THEN <<>>
    ELSE LET neighbour == neighbours[Len(neighbours)]
             neighbourCoords == <<neighbour[2], neighbour[3]>>
         IN  (neighbourCoords :>
                 <<neighbour[1], WorldDistance2Node(coords, neighbourCoords)>>)
             @@ neighbourDict(coords, SubSeq(neighbours, 1, Len(neighbours) - 1))

\* Taxi.addMapNode; an unknown node or neighbour returns an error object
\* and leaves the map alone
addMapNode(map, coords, neighbours) ==
    IF ~WorldGetNode(coords) THEN map
    ELSE IF \E k \in 1 .. Len(neighbours) :
                ~WorldGetNode(<<neighbours[k][2], neighbours[k][3]>>)
    THEN map
    ELSE (coords :> neighbourDict(coords, neighbours)) @@ map

\* the list with the distance of each neighbour where its direction belongs
RECURSIVE neighbourListDistance(_, _)
neighbourListDistance(dict, left) ==
    IF left = {} THEN <<>>
    ELSE LET nb == CHOOSE x \in left : \A y \in left : x = y \/ TupleLess(<<0, x>>, <<0, y>>)
         IN  <<<<dict[nb][2], nb[1], nb[2]>>>> \o neighbourListDistance(dict, left \ {nb})

\* the neighbours of a node of a map as the list importMap hands on, in
\* the order of the places
RECURSIVE neighbourList(_, _)
neighbourList(dict, left) ==
    IF left = {} THEN <<>>
    ELSE LET nb == CHOOSE x \in left : \A y \in left : x = y \/ TupleLess(<<0, x>>, <<0, y>>)
         IN  <<<<dict[nb][1], nb[1], nb[2]>>>> \o neighbourList(dict, left \ {nb})

\* the loop of importMap over the nodes of newMap that are left
RECURSIVE importNodes(_, _, _)
importNodes(map, newMap, left) ==
    IF left = {} THEN map
    ELSE LET node == CHOOSE x \in left : TRUE
         IN  importNodes(
                 addMapNode(map, node, neighbourList(newMap[node], DOMAIN newMap[node])),
                 newMap, left \ {node})

\* Taxi.importMap
importMap(map, newMap) ==
    IF map = NoMap THEN newMap ELSE importNodes(map, newMap, DOMAIN newMap)

\* Dispatcher.addMapNode; a dispatcher without a map raises TypeError on
\* the assignment and is left without one
dispatcherAddMapNode(map, coords, neighbours) ==
    IF ~WorldGetNode(coords) THEN map
    ELSE IF \E k \in 1 .. Len(neighbours) :
                ~WorldGetNode(<<neighbours[k][2], neighbours[k][3]>>)
    THEN map
    ELSE IF map = NoMap THEN map
    ELSE (coords :> neighbourDict(coords, neighbours)) @@ map

RECURSIVE dispatcherImportNodes(_, _, _)
dispatcherImportNodes(map, newMap, left) ==
    IF left = {} THEN map
    ELSE LET node == CHOOSE x \in left : TRUE
         IN  dispatcherImportNodes(
                 dispatcherAddMapNode(map, node,
                                      neighbourList(newMap[node], DOMAIN newMap[node])),
                 newMap, left \ {node})

\* Dispatcher.importMap
dispatcherImportMap(map, newMap) ==
    IF map = NoMap THEN newMap ELSE dispatcherImportNodes(map, newMap, DOMAIN newMap)

\* the direction of the road from a to b: 1 towards larger x, 0 otherwise
WorldDirection(a, b) == IF b[1] > a[1] THEN 1 ELSE 0

\* the neighbour dictionaries of a node n as the world exports them
ExportedDicts(n) ==
    {[nb \in nbs |-> <<WorldDirection(n, nb), WorldDistance2Node(n, nb)>>] :
        nbs \in SUBSET (PlanNodes \ {n})}

\* the places a caller may name: the nodes and one place that is no node
Places == PlanNodes \cup {<<5, 0>>}

\* the neighbour lists a caller may hand to addMapNode
NeighbourLists ==
    UNION {[1 .. n -> {<<dir, x[1], x[2]>> : dir \in 0 .. 1, x \in Places}] :
             n \in 0 .. MaxNeighbours}

\* taxi 0 and the dispatcher hold one snapshot of the world's map, or the
\* dispatcher none
InitMap ==
    /\ simTime = 0
    /\ turn = 0
    /\ tickOrder = Roster
    /\ fareQ = {}
    /\ fareBoard = <<>>
    /\ revenue = 0
    /\ completedRides = 0
    /\ abandonedRides = 0
    /\ calls = <<>>
    /\ \E keys \in SUBSET PlanNodes :
       \E m \in [PlanNodes -> UNION {ExportedDicts(n) : n \in PlanNodes}] :
          /\ \A n \in PlanNodes : m[n] \in ExportedDicts(n)
          /\ taxis = [i \in TaxiIds |->
                        IF i = 0 THEN [Taxi(i) EXCEPT !.map = [n \in keys |-> m[n]]]
                        ELSE Taxi(i)]
          /\ dispatcherMap \in {NoMap, [n \in keys |-> m[n]]}

\* the maps a caller imports: the snapshot held already, and the maps of
\* one place with any neighbours
ImportedMaps(held) ==
    {held} \cup
    UNION {{[n \in {p} |-> d] : d \in ExportedDicts(p)} : p \in PlanNodes}

TaxiImportMap(newMap) ==
    /\ turn = 0
    /\ turn' = 1
    /\ taxis' = [taxis EXCEPT ![0].map = importMap(@, newMap)]
    /\ calls' = <<Call("importMap", <<0, 0>>, 0, newMap)>>
    /\ UNCHANGED <<simTime, tickOrder, dispatcherMap, fareQ, fareBoard, revenue,
                   completedRides, abandonedRides>>

TaxiAddMapNode(coords, neighbours) ==
    /\ turn = 0
    /\ turn' = 1
    /\ taxis' = [taxis EXCEPT ![0].map = addMapNode(@, coords, neighbours)]
    /\ calls' = <<Call("addMapNode", coords, 0, neighbours)>>
    /\ UNCHANGED <<simTime, tickOrder, dispatcherMap, fareQ, fareBoard, revenue,
                   completedRides, abandonedRides>>

DispatcherImportMap(newMap) ==
    /\ turn = 0
    /\ turn' = 1
    /\ dispatcherMap' = dispatcherImportMap(dispatcherMap, newMap)
    /\ calls' = <<Call("importMap", <<0, 0>>, -1, newMap)>>
    /\ UNCHANGED <<simTime, tickOrder, fareQ, fareBoard, revenue, completedRides,
                   abandonedRides, taxis>>

DispatcherAddMapNode(coords, neighbours) ==
    /\ turn = 0
    /\ turn' = 1
    /\ dispatcherMap' = dispatcherAddMapNode(dispatcherMap, coords, neighbours)
    /\ calls' = <<Call("addMapNode", coords, -1, neighbours)>>
    /\ UNCHANGED <<simTime, tickOrder, fareQ, fareBoard, revenue, completedRides,
                   abandonedRides, taxis>>

NextMap ==
    \/ \E newMap \in ImportedMaps(taxis[0].map) : TaxiImportMap(newMap)
    \/ \E coords \in Places, neighbours \in NeighbourLists :
          TaxiAddMapNode(coords, neighbours)
    \/ \E newMap \in ImportedMaps(taxis[0].map) : DispatcherImportMap(newMap)
    \/ \E coords \in Places, neighbours \in NeighbourLists :
          DispatcherAddMapNode(coords, neighbours)

SpecMap == InitMap /\ [][NextMap]_vars

(***************************************************************************)
(* Allocation on its own: a tick of the dispatcher at time MaxIdle over a  *)
(* board with one priced fare from (0,0), for any order of bids and any    *)
(* place, income, time of the last completed fare, duty and money of the   *)
(* taxis.                                                                  *)
(***************************************************************************)
\* the orders in which some of the taxis may have bid
BidOrders ==
    {b \in UNION {[1 .. n -> TaxiIds] : n \in 1 .. NumTaxis} :
        \A j, k \in 1 .. Len(b) : b[j] = b[k] => j = k}

\* the bids of the taxis of b, in that order, on the fare they were
\* advised of at the origin o
RECURSIVE Bids(_, _, _)
Bids(st, o, b) ==
    IF b = <<>> THEN st
    ELSE LET i == Head(b)
             n == FirstIdx({m \in 1 .. Len(st.taxis[i].fares) :
                               st.taxis[i].fares[m].origin = o})
         IN  Bids(WorldTransmitFareBid([st EXCEPT !.taxis[i].fares[n].bid = 1],
                                       o, i, 0),
                  o, Tail(b))

InitAlloc ==
    /\ simTime = MaxIdle
    /\ turn = 0
    /\ tickOrder = Roster
    /\ dispatcherMap = ServiceMap
    /\ revenue = 0
    /\ completedRides = 0
    /\ abandonedRides = 0
    /\ calls = <<>>
    /\ \E b \in BidOrders :
       \E place \in [TaxiIds -> Nodes], income \in [TaxiIds -> 0 .. MaxIncome],
          last \in [TaxiIds -> 0 .. MaxIdle], duty \in [TaxiIds -> BOOLEAN],
          money \in [TaxiIds -> {0, Unit}] :
          LET r == Request(<<>>, {}, <<0, 0>>, <<RoadLength, 0>>)
              st0 == [board |-> r.board, fareQ |-> r.fareQ, calls |-> <<>>,
                      taxis |-> [i \in TaxiIds |->
                                    [comeOnDuty(Taxi(i), 0) EXCEPT !.loc = place[i]]]]
              \* the tick at time 0 prices the fare, then the taxis bid
              st1 == Bids(dispatcherClockTick(st0, 1, 0), <<0, 0>>, b)
          IN  /\ fareBoard = st1.board
              /\ fareQ = st1.fareQ
              /\ taxis = [i \in TaxiIds |->
                            [st1.taxis[i] EXCEPT
                                !.income = income[i],
                                !.lastFareCompletionTime = last[i],
                                !.onDuty = duty[i],
                                !.account = money[i]]]

NextAlloc == DispatcherTick

SpecAlloc == InitAlloc /\ [][NextAlloc]_vars

(***************************************************************************)
(* Bidding on its own: calls of fareBid, by the taxis of the roster and by *)
(* a taxi that is not of the roster, on any board that up to MaxBoard      *)
(* calls of newFare and handover have built.                               *)
(***************************************************************************)
\* Dispatcher.handover for a taxi of the roster: the board after the call
\* and whether newFare has counted a ride
handover(b, o, d, t, taxi, price) ==
    LET r == newFare(b, o, d, t)
        i == OriginIdx(r[1], o)
        j == DestIdx(r[1][i].dests, d)
        k == TimeIdx(r[1][i].dests[j].times, t)
    IN  <<[r[1] EXCEPT ![i].dests[j].times[k].taxi = taxi,
                       ![i].dests[j].times[k].price = price],
          r[2]>>

\* a call that builds the board: newFare, or handover to taxi 0
BoardCalls ==
    [origin : Nodes, destination : Nodes, calltime : 0 .. 1, handed : BOOLEAN]

\* the board after the calls cs and the rides counted on the way
RECURSIVE Built(_)
Built(cs) ==
    IF cs = <<>> THEN <<<<>>, 0>>
    ELSE LET before == Built(SubSeq(cs, 1, Len(cs) - 1))
             c == cs[Len(cs)]
             r == IF c.handed
                  THEN handover(before[1], c.origin, c.destination, c.calltime,
                                0, 10 * Unit)
                  ELSE newFare(before[1], c.origin, c.destination, c.calltime)
         IN  <<r[1], before[2] + (IF r[2] THEN 1 ELSE 0)>>

InitBid ==
    /\ simTime = 1
    /\ turn = 0
    /\ tickOrder = Roster
    /\ dispatcherMap = ServiceMap
    /\ fareQ = {}
    /\ revenue = 0
    /\ abandonedRides = 0
    /\ calls = <<>>
    /\ taxis = [i \in TaxiIds |-> comeOnDuty(Taxi(i), 0)]
    /\ \E cs \in UNION {[1 .. n -> BoardCalls] : n \in 0 .. MaxBoard} :
          /\ fareBoard = Built(cs)[1]
          /\ completedRides = Built(cs)[2]

\* the world hands on a bid for the fare at o, of a taxi of the roster or
\* of one that is not (the number NumTaxis)
FareBid(o, taxi) ==
    /\ turn < MaxBids
    /\ turn' = turn + 1
    /\ fareBoard' = fareBid(fareBoard, o, taxi)
    /\ calls' = <<Call("fareBid", o, taxi, 0)>>
    /\ UNCHANGED <<simTime, tickOrder, dispatcherMap, fareQ, revenue, completedRides,
                   abandonedRides, taxis>>

NextBid == \E o \in Nodes, taxi \in 0 .. NumTaxis : FareBid(o, taxi)

SpecBid == InitBid /\ [][NextBid]_vars

(***************************************************************************)
(* The sweep of the dispatcher's clock tick on its own: requests for one   *)
(* origin arrive with their call times in any order (as the fares of a     *)
(* previous dispatcher do) and are cancelled, the taxis bid, and the        *)
(* dispatcher is ticked.                                                   *)
(* The world holds no fare object for these requests.                      *)
(***************************************************************************)
SweepOrigin == <<0, 0>>

InitSweep ==
    /\ simTime = 1
    /\ turn = 0
    /\ tickOrder = Roster
    /\ dispatcherMap = ServiceMap
    /\ fareQ = {}
    /\ fareBoard = <<>>
    /\ revenue = 0
    /\ completedRides = 0
    /\ abandonedRides = 0
    /\ calls = <<>>
    /\ taxis = [i \in TaxiIds |-> comeOnDuty(Taxi(i), 0)]

SweepNewFare(d, t) ==
    /\ turn < MaxSweep
    /\ turn' = turn + 1
    /\ LET r == newFare(fareBoard, SweepOrigin, d, t)
       IN  /\ fareBoard' = r[1]
           /\ completedRides' = IF r[2] THEN completedRides + 1 ELSE completedRides
    /\ calls' = <<Call("newFare", SweepOrigin, -1, t)>>
    /\ UNCHANGED <<simTime, tickOrder, dispatcherMap, fareQ, revenue, abandonedRides,
                   taxis>>

SweepBid(taxi) ==
    /\ turn < MaxSweep
    /\ turn' = turn + 1
    /\ fareBoard' = fareBid(fareBoard, SweepOrigin, taxi)
    /\ calls' = <<Call("fareBid", SweepOrigin, taxi, 0)>>
    /\ UNCHANGED <<simTime, tickOrder, dispatcherMap, fareQ, revenue, completedRides,
                   abandonedRides, taxis>>

SweepCancelFare(d, t) ==
    /\ turn < MaxSweep
    /\ turn' = turn + 1
    /\ LET r == cancelFare(Now, SweepOrigin, d, t)
       IN  /\ Commit([r[1] EXCEPT !.calls = <<Call("cancelFare", SweepOrigin, -1, t)>> \o @])
           /\ abandonedRides' = IF r[2] THEN abandonedRides + 1 ELSE abandonedRides
    /\ UNCHANGED <<simTime, tickOrder, dispatcherMap, revenue, completedRides>>

SweepTick ==
    /\ turn < MaxSweep
    /\ turn' = turn + 1
    /\ LET st == dispatcherClockTick(Now, 1, simTime)
       IN  Commit([st EXCEPT !.calls = <<Call("clockTick", SweepOrigin, -1, 0)>> \o @])
    /\ UNCHANGED <<simTime, tickOrder, dispatcherMap, revenue, completedRides,
                   abandonedRides>>

NextSweep ==
    \/ \E d \in Nodes, t \in 0 .. 1 : SweepNewFare(d, t)
    \/ \E d \in Nodes, t \in 0 .. 1 : SweepCancelFare(d, t)
    \/ \E taxi \in TaxiIds : SweepBid(taxi)
    \/ SweepTick

SpecSweep == InitSweep /\ [][NextSweep]_vars

(***************************************************************************)
(* The simulation with road maps on which the planner finds no path: the   *)
(* taxis import the service map, a map whose road from (0,0) to the other  *)
(* node is missing, or a map that lacks the other node.  An exception that *)
(* leaves a handler ends the run.                                          *)
(***************************************************************************)
OneWayMap ==
    [n \in Nodes |-> IF n = <<0, 0>> THEN <<>> ELSE ServiceMap[n]]

PartialMap == [n \in {<<0, 0>>} |-> ServiceMap[n]]

RouteMaps == {ServiceMap, OneWayMap, PartialMap}

InitRoute ==
    /\ simTime = 0
    /\ turn = 0
    /\ tickOrder \in TickOrders
    /\ dispatcherMap = ServiceMap
    /\ fareQ = {}
    /\ fareBoard = <<>>
    /\ revenue = 0
    /\ completedRides = 0
    /\ abandonedRides = 0
    /\ \E m \in RouteMaps : taxis = [i \in TaxiIds |-> [Taxi(i) EXCEPT !.map = m]]
    /\ calls = <<>>

Running == \A i \in TaxiIds : taxis[i].raised = ""

NextRoute ==
    \/ Running /\ AdvanceTime
    \/ \E o \in Nodes, d \in Nodes : Running /\ NewFare(o, d)
    \/ \E f \in fareQ : Running /\ CancelFare(f)
    \/ \E f \in fareQ : Running /\ PayFare(f)
    \/ Running /\ DispatcherTick
    \/ \E i \in TaxiIds : Running /\ Drive(i)
    \/ \E i \in TaxiIds : Running /\ TaxiTick(i)
    \/ \E i \in TaxiIds : Running /\ ComeOnDuty(i)
    \/ \E i \in TaxiIds : Running /\ StayOffDuty(i)

SpecRoute == InitRoute /\ [][NextRoute]_vars

(***************************************************************************)
(* The claims of the specification.                                        *)
(***************************************************************************)
\* the entry of the board b with the key of e, as a set of at most one
SameEntry(b, e) == {x \in BoardEntries(b) : FareKey(x) = FareKey(e)}

\* the places of the entries a taxi holds as allocated
AllocatedPlaces(tx) == {n \in 1 .. Len(tx.fares) : tx.fares[n].allocated}

\* the calls of one kind the last handler made to the world
CallsOf(c) == {n \in 1 .. Len(calls) : calls[n].call = c}

\* a step that is a clock tick of taxi i
TaxiTickStep(i) ==
    /\ turn \in 1 .. NumTaxis
    /\ tickOrder[turn] = i
    /\ taxis[i].onDuty
    /\ turn' = turn + 1

\* a step that is a clock tick of the dispatcher
DispatcherTickStep == turn = 0 /\ turn' = 1

\* C1: once an entry of the fare board has been priced by a tick, no later
\* step prices it again or changes its price.
C1_PricedOnce ==
    [][\A e \in BoardEntries(fareBoard) : \A x \in SameEntry(fareBoard', e) :
          e.pricings >= 1 => x.pricings = e.pricings /\ x.price = e.price]_vars

\* C2: once a tick has set the taxi of an entry, no later step (a bid, a
\* tick) changes it for as long as the entry is on the board.
C2_AssignedTaxiKept ==
    [][\A e \in BoardEntries(fareBoard) : \A x \in SameEntry(fareBoard', e) :
          e.taxi >= 0 => x.taxi = e.taxi]_vars

\* a dispatcher tick has just left alone an assigned entry whose taxi can
\* no longer be chosen while another bidder can
C2_Witness ==
    /\ turn = 1
    /\ CallsOf("allocateFare") = {}
    /\ \E e \in BoardEntries(fareBoard) :
          /\ e.taxi >= 0
          /\ ~(taxis[e.taxi].onDuty /\ taxis[e.taxi].account > 0)
          /\ \E n \in 1 .. Len(e.bidders) :
                /\ e.bidders[n] # e.taxi
                /\ taxis[e.bidders[n]].onDuty
                /\ taxis[e.bidders[n]].account > 0

\* C3: a taxi never holds two commitments: its allocated entries and its
\* passenger count at most one together.
C3_OneCommitment ==
    \A i \in TaxiIds :
        Cardinality(AllocatedPlaces(taxis[i]))
            + (IF taxis[i].passenger # NoPassenger THEN 1 ELSE 0) <= 1

\* C4: a tick of a taxi that carries a passenger or holds an allocated
\* entry transmits no bid, and the undecided entries it evaluates are
\* marked declined: none becomes a bid, and the unallocated ones it keeps
\* hold -1.
C4_NoBidWhenCommitted ==
    [][\A i \in TaxiIds :
          (/\ TaxiTickStep(i)
           /\ \/ AnyAllocated(taxis[i].fares)
              \/ taxis'[i].passenger # NoPassenger)
          => /\ \A n \in 1 .. Len(calls') : calls'[n].call # "transmitFareBid"
             /\ \A n \in 1 .. Len(taxis[i].fares) :
                   \A m \in 1 .. Len(taxis'[i].fares) :
                      LET f == taxis[i].fares[n]
                          g == taxis'[i].fares[m]
                      IN  (f.bid = 0 /\ g.time = f.time /\ g.origin = f.origin)
                          => /\ g.bid # 1
                             /\ ~f.allocated => g.bid = -1]_vars

\* a taxi with a commitment has just ticked and holds as declined an
\* entry of this very tick, with a price, that its policy accepts
C4_Witness ==
    \E i \in TaxiIds :
        /\ turn \in 2 .. (NumTaxis + 1)
        /\ tickOrder[turn - 1] = i
        /\ taxis[i].onDuty
        /\ taxis[i].passenger # NoPassenger \/ AnyAllocated(taxis[i].fares)
        /\ \E n \in 1 .. Len(taxis[i].fares) :
              /\ taxis[i].fares[n].bid = -1
              /\ ~taxis[i].fares[n].allocated
              /\ taxis[i].fares[n].time = simTime
              /\ taxis[i].fares[n].price > 0

\* C5: the taxi a tick of the dispatcher allocates a fare to is on duty
\* and has a balance above zero when the tick runs.
C5_WinnerEligible ==
    [][DispatcherTickStep =>
          \A e \in BoardEntries(fareBoard) : \A x \in SameEntry(fareBoard', e) :
             (e.taxi < 0 /\ x.taxi >= 0)
             => taxis[x.taxi].onDuty /\ taxis[x.taxi].account > 0]_vars

\* a dispatcher tick has just allocated a fare for which a taxi without
\* money had bid as well
C5_Witness ==
    /\ turn = 1
    /\ \E e \in BoardEntries(fareBoard) :
          /\ e.taxi >= 0
          /\ \E n \in CallsOf("allocateFare") :
                calls[n].origin = e.origin /\ calls[n].taxi = e.taxi
          /\ \E n \in 1 .. Len(e.bidders) : taxis[e.bidders[n]].account <= 0

\* C6: when the best score is shared by several eligible bidders, the fare
\* goes to the one of them with the lowest roster index.
C6_TieToLowestIndex ==
    [][DispatcherTickStep =>
          \A e \in BoardEntries(fareBoard) : \A x \in SameEntry(fareBoard', e) :
             (e.taxi < 0 /\ x.taxi >= 0)
             => \A n \in 1 .. Len(e.bidders) :
                   LET b == e.bidders[n]
                       sb == priorityScore(taxis[b], e.origin, Len(e.bidders), simTime)
                       sw == priorityScore(taxis[x.taxi], e.origin, Len(e.bidders),
                                           simTime)
                   IN  (/\ taxis[b].onDuty
                        /\ taxis[b].account > 0
                        /\ sb[1] * sw[2] = sw[1] * sb[2])
                       => x.taxi <= b]_vars

\* the number of taxis on duty
OnDutyCount == Cardinality({i \in TaxiIds : taxis[i].onDuty})

\* the price of the pricing policy for a travel time tt, f outstanding
\* fares and t taxis on duty: p is min((25 + tt) * max(1, f / t), 10 * tt)
IsPolicyPrice(p, tt, f, t) ==
    IF t = 0 THEN p = 10 * tt * Unit
    ELSE p * t = Min((25 + tt) * Max(f, t), 10 * tt * t) * Unit

\* C7, as the specification states it: a tick gives an unpriced fare a
\* price above zero that is the price of the pricing policy.
C7_PricePositive ==
    [][DispatcherTickStep =>
          \A e \in BoardEntries(fareBoard) : \A x \in SameEntry(fareBoard', e) :
             e.price = 0
             => /\ x.price > 0
                /\ IsPolicyPrice(x.price, WorldTravelTime(e.origin, e.destination),
                                 Cardinality(fareQ), OnDutyCount)]_vars

\* C7: a tick gives an unpriced fare the price of the pricing policy, for
\* every travel time and every count of fares and taxis; the price is
\* above zero whenever the travel time is.
C7_PolicyPrice ==
    [][DispatcherTickStep =>
          \A e \in BoardEntries(fareBoard) : \A x \in SameEntry(fareBoard', e) :
             e.price = 0
             => LET tt == WorldTravelTime(e.origin, e.destination)
                IN  /\ IsPolicyPrice(x.price, tt, Cardinality(fareQ), OnDutyCount)
                    /\ tt > 0 => x.price > 0]_vars

\* a tick has just priced a fare below its ceiling with more fares
\* outstanding than taxis on duty
C7_Witness ==
    /\ turn = 1
    /\ Cardinality(fareQ) > OnDutyCount
    /\ OnDutyCount > 0
    /\ \E e \in BoardEntries(fareBoard) :
          /\ e.pricings = 1
          /\ e.price > 0
          /\ e.price < 10 * WorldTravelTime(e.origin, e.destination) * Unit
          /\ \E n \in CallsOf("broadcastFare") :
                calls[n].origin = e.origin /\ calls[n].arg = e.price

\* C8: a cancellation notifies the taxi the fare is assigned to, and no
\* taxi at all when the fare is not assigned.
C8_CancelNotice ==
    [][abandonedRides' # abandonedRides =>
          \A e \in BoardEntries(fareBoard) :
             SameEntry(fareBoard', e) = {}
             => IF e.taxi >= 0
                THEN \E n \in 1 .. Len(calls') :
                        calls'[n] = Call("cancelFare", e.origin, e.taxi, 0)
                ELSE \A n \in 1 .. Len(calls') : calls'[n].call # "cancelFare"]_vars

\* the places of the entries a taxi holds for a fare from o to d
HeldFor(tx, o, d) ==
    {n \in 1 .. Len(tx.fares) : tx.fares[n].origin = o /\ tx.fares[n].destination = d}

\* C9: when an assigned fare is cancelled its taxi is sent the
\* cancellation, and the taxi's entry for the fare is gone afterwards,
\* whatever else the taxi holds.
C9_CancelDropsEntry ==
    [][abandonedRides' # abandonedRides =>
          \A e \in BoardEntries(fareBoard) :
             (SameEntry(fareBoard', e) = {} /\ e.taxi >= 0)
             => LET before == HeldFor(taxis[e.taxi], e.origin, e.destination)
                    after == HeldFor(taxis'[e.taxi], e.origin, e.destination)
                IN  /\ \E n \in 1 .. Len(calls') :
                          calls'[n] = Call("cancelFare", e.origin, e.taxi, 0)
                    /\ before # {} => Cardinality(after) < Cardinality(before)]_vars

\* C10: a tick of a taxi removes every unallocated entry older than the
\* taxi's maxFareWait and transmits no bid for it; no bid is transmitted
\* for an entry of that age in any tick.
C10_StaleRemoved ==
    [][\A i \in TaxiIds :
          TaxiTickStep(i)
          => /\ \A n \in 1 .. Len(taxis[i].fares) :
                   LET f == taxis[i].fares[n]
                   IN  (~f.allocated /\ simTime - f.time > taxis[i].maxFareWait)
                       => /\ \A m \in 1 .. Len(taxis'[i].fares) :
                                ~(/\ taxis'[i].fares[m].time = f.time
                                  /\ taxis'[i].fares[m].origin = f.origin)
                          /\ \A m \in 1 .. Len(calls') :
                                ~(/\ calls'[m].call = "transmitFareBid"
                                  /\ calls'[m].origin = f.origin
                                  /\ calls'[m].arg = f.time)
             /\ \A m \in 1 .. Len(calls') :
                   calls'[m].call = "transmitFareBid"
                   => simTime - calls'[m].arg <= taxis[i].maxFareWait]_vars

\* a taxi has just ticked and no longer holds its entry for a fare it has
\* bid for and lost to another taxi, more than maxFareWait after the call,
\* with no cancellation ever made
C10_Witness ==
    \E i \in TaxiIds :
        /\ turn \in 2 .. (NumTaxis + 1)
        /\ tickOrder[turn - 1] = i
        /\ abandonedRides = 0
        /\ \E e \in BoardEntries(fareBoard) :
              /\ e.taxi >= 0
              /\ e.taxi # i
              /\ \E n \in 1 .. Len(e.bidders) : e.bidders[n] = i
              /\ simTime - e.calltime > taxis[i].maxFareWait
              /\ \A n \in 1 .. Len(taxis[i].fares) : taxis[i].fares[n].origin # e.origin

\* the walks over the nodes the planner is looked at on, as long as the
\* number of nodes: every least cost is the cost of one of them
Walks == UNION {[1 .. n -> PlanNodes] : n \in 1 .. Cardinality(PlanNodes)}

\* w follows edges of the map
IsWalk(map, w) ==
    \A k \in 1 .. (Len(w) - 1) :
        w[k] \in DOMAIN map /\ w[k + 1] \in DOMAIN map[w[k]]

RECURSIVE WalkCost(_, _)
WalkCost(map, w) ==
    IF Len(w) <= 1 THEN 0
    ELSE map[w[1]][w[2]][2] + WalkCost(map, Tail(w))

\* the walks of the map from o to d
Routes(map, o, d) ==
    {w \in Walks : w[1] = o /\ w[Len(w)] = d /\ IsWalk(map, w)}

\* d is reachable from o in the map
Connected(map, o, d) ==
    o \in DOMAIN map /\ d \in DOMAIN map /\ Routes(map, o, d) # {}

\* taxi 0 has just planned a path
Planned == calls # <<>> /\ calls[1].call = "planPath"

\* C11: for a destination reachable from the origin, the cost of the path
\* the planner returns is the least cost of a walk between them.
C11_LeastCost ==
    Planned =>
        LET map == taxis[0].map
            o == calls[1].origin
            d == calls[1].arg
            r == taxis[0].path
        IN  (Connected(map, o, d) /\ r # NoPath /\ r # KeyError)
            => \A w \in Routes(map, o, d) : WalkCost(map, r) <= WalkCost(map, w)

\* C12: the planner returns a walk of the map from the origin to the
\* destination when the destination is reachable from the origin, and "no
\* path" when the origin or the destination is no node of the map or the
\* two are not connected.
C12_WalkOrNoPath ==
    Planned =>
        LET map == taxis[0].map
            o == calls[1].origin
            d == calls[1].arg
            r == taxis[0].path
        IN  IF Connected(map, o, d)
            THEN r \in Routes(map, o, d)
            ELSE r = NoPath

\* every (node, neighbour) entry of the map before is an entry of the map after
KeepsEntries(before, after) ==
    \A n \in DOMAIN before :
        n \in DOMAIN after /\ DOMAIN before[n] \subseteq DOMAIN after[n]

\* C13: an import into a taxi or a dispatcher that holds a map keeps every
\* (node, neighbour) entry the map had.
C13_ImportAdditive ==
    [][/\ KeepsEntries(taxis[0].map, taxis'[0].map)
       /\ dispatcherMap # NoMap => KeepsEntries(dispatcherMap, dispatcherMap')]_vars

\* C14: importing the very map a taxi or a dispatcher holds leaves its
\* map, and so every neighbour, direction and distance in it, as it was.
C14_ReimportUnchanged ==
    [][(calls' # <<>> /\ calls'[1].call = "importMap")
       => /\ (calls'[1].taxi = 0 /\ calls'[1].arg = taxis[0].map)
             => taxis'[0].map = taxis[0].map
          /\ (calls'[1].taxi = -1 /\ dispatcherMap # NoMap
                /\ calls'[1].arg = dispatcherMap)
             => dispatcherMap' = dispatcherMap]_vars

\* the taxi has just been handed the map it holds, a map of every node
\* with a node of two neighbours
C14_Witness ==
    /\ calls # <<>>
    /\ calls[1].call = "importMap"
    /\ calls[1].taxi = 0
    /\ calls[1].arg = taxis[0].map
    /\ DOMAIN taxis[0].map = PlanNodes
    /\ \E n \in PlanNodes : Cardinality(DOMAIN taxis[0].map[n]) >= 2

\* C15: of two eligible bidders with the same pickup time, the one with
\* the higher income and the shorter idle time is not allocated the fare:
\* it goes to a taxi, and of the two only the other can be it, whatever the
\* order of the bids and the places in the roster.
C15_EquityAndIdleness ==
    [][DispatcherTickStep =>
          \A e \in BoardEntries(fareBoard) : \A x \in SameEntry(fareBoard', e) :
             (e.taxi < 0 /\ e.price # 0)
             => \A j, k \in 1 .. Len(e.bidders) :
                   LET a == taxis[e.bidders[j]]
                       b == taxis[e.bidders[k]]
                   IN  (/\ a.onDuty /\ a.account > 0
                        /\ b.onDuty /\ b.account > 0
                        /\ WorldTravelTime(a.loc, e.origin)
                              = WorldTravelTime(b.loc, e.origin)
                        /\ a.income < b.income
                        /\ simTime - a.lastFareCompletionTime
                              > simTime - b.lastFareCompletionTime)
                       => x.taxi >= 0 /\ x.taxi # e.bidders[k]]_vars

\* a tick has just allocated a fare to taxi 1, which bid after taxi 0 from
\* the same place with less income and a longer idle time
C15_Witness ==
    /\ turn = 1
    /\ CallsOf("allocateFare") # {}
    /\ \E e \in BoardEntries(fareBoard) :
          /\ e.taxi = 1
          /\ Len(e.bidders) >= 2
          /\ e.bidders[1] = 0
          /\ e.bidders[2] = 1
          /\ taxis[0].onDuty /\ taxis[0].account > 0
          /\ taxis[0].loc = taxis[1].loc
          /\ taxis[1].income < taxis[0].income
          /\ taxis[1].lastFareCompletionTime < taxis[0].lastFareCompletionTime

\* C16: a call of newFare changes the board entry at its key and nothing
\* else: the revenue, the ride counters, the taxis and every other entry
\* of the board stay as they are, and no message is sent.
C16_NewFareFrame ==
    [][\A f \in fareQ' :
          (\A g \in fareQ : FareKey(g) # FareKey(f))
          => /\ revenue' = revenue
             /\ completedRides' = completedRides
             /\ abandonedRides' = abandonedRides
             /\ taxis' = taxis
             /\ calls' = <<>>
             /\ \A e \in BoardEntries(fareBoard) :
                   FareKey(e) # FareKey(f) => e \in BoardEntries(fareBoard')]_vars

\* the entries of the board at the origin o in the order in which a loop
\* over the destinations and their call times finds them
RECURSIVE Found(_)
Found(dests) ==
    IF dests = <<>> THEN <<>> ELSE Head(dests).times \o Found(Tail(dests))

FoundAt(b, o) ==
    IF \E i \in 1 .. Len(b) : b[i].origin = o
    THEN Found(b[CHOOSE i \in 1 .. Len(b) : b[i].origin = o].dests)
    ELSE <<>>

\* C17: a bid of a taxi of the roster is added to the bidders of the first
\* unassigned fare found at the origin and changes no other entry of the
\* board; it changes nothing when there is no such fare, and a bid of a
\* taxi that is not of the roster changes nothing.
C17_OneFareBid ==
    [][(calls' # <<>> /\ calls'[1].call = "fareBid")
       => LET o == calls'[1].origin
              taxi == calls'[1].taxi
              found == FoundAt(fareBoard, o)
              open == {n \in 1 .. Len(found) : found[n].taxi = -1}
          IN  IF taxi \notin TaxiIds \/ open = {}
              THEN fareBoard' = fareBoard
              ELSE LET first == found[CHOOSE n \in open : \A m \in open : n <= m]
                   IN  /\ Cardinality(BoardEntries(fareBoard'))
                             = Cardinality(BoardEntries(fareBoard))
                       /\ \A e \in BoardEntries(fareBoard) :
                             SameEntry(fareBoard', e)
                                = {IF e = first
                                   THEN [e EXCEPT !.bidders = Append(@, taxi)]
                                   ELSE e}]_vars

\* a bid has just gone to the second fare found at its origin, past a fare
\* that is assigned, and not to a third that is unassigned as well
C17_Witness ==
    /\ calls # <<>>
    /\ calls[1].call = "fareBid"
    /\ LET found == FoundAt(fareBoard, calls[1].origin)
       IN  /\ Len(found) = 3
           /\ found[1].taxi >= 0 /\ found[1].bidders = <<>>
           /\ found[2].taxi = -1 /\ found[2].bidders = <<calls[1].taxi>>
           /\ found[3].taxi = -1 /\ found[3].bidders = <<>>

\* C18: the payment for a fare that has arrived raises both the account and
\* the cumulative income of the taxi that carried it by the amount paid.
C18_PaymentCredited ==
    [][\A f \in fareQ :
          (f.status = "arrived" /\ f \notin fareQ' /\ revenue' = revenue + f.price)
          => /\ taxis'[f.taxi].account = taxis[f.taxi].account + f.price
             /\ taxis'[f.taxi].income = taxis[f.taxi].income + f.price]_vars

\* C19: a taxi whose on-duty flag is false transmits no bid: a clock tick
\* that leaves the flag of the taxi false (the tick sets it false in its
\* first step and never sets it true) has made no call of transmitFareBid.
C19_NoBidOffDuty ==
    [][\A i \in TaxiIds :
          (TaxiTickStep(i) /\ ~taxis'[i].onDuty)
          => \A n \in 1 .. Len(calls') : calls'[n].call # "transmitFareBid"]_vars

\* what a tick that takes the board from ts to us has done to the entry at
\* index k of an (origin, destination) pair: priced and broadcast it,
\* allocated it to a taxi, or nothing
Done(ts, us, k) ==
    IF ts[k].price = 0
    THEN [calltime |-> ts[k].calltime, call |-> "broadcastFare", taxi |-> -1]
    ELSE IF ts[k].taxi < 0 /\ us[k].taxi >= 0
         THEN [calltime |-> ts[k].calltime, call |-> "allocateFare", taxi |-> us[k].taxi]
         ELSE [calltime |-> ts[k].calltime, call |-> "none", taxi |-> -1]

\* the entries of ds that the tick has acted on, from the call time t on
RECURSIVE FromTime(_, _)
FromTime(ds, t) ==
    IF t > MaxTime THEN <<>>
    ELSE SelectSeq(ds, LAMBDA x : x.calltime = t /\ x.call # "none") \o FromTime(ds, t + 1)

\* the world calls of a tick at one origin, destination after destination
\* and in ascending call time within a destination
RECURSIVE InTimeOrder(_, _, _)
InTimeOrder(dests, after, j) ==
    IF j > Len(dests) THEN <<>>
    ELSE LET ts == dests[j].times
             ds == [k \in 1 .. Len(ts) |-> Done(ts, after[j].times, k)]
             acted == FromTime(ds, 0)
         IN  [n \in 1 .. Len(acted) |-> <<acted[n].call, acted[n].taxi>>]
                \o InTimeOrder(dests, after, j + 1)

NoneRaised == \A i \in TaxiIds : taxis[i].raised = ""

\* C21: a tick of a taxi in which the planner finds no path ends without an
\* error and leaves the route a sequence of waypoints, and so does every
\* later tick: every tick of a taxi ends with no exception raised and with a
\* route that is a sequence.
C21_PlanningFailureHandled ==
    [][\A i \in TaxiIds :
          TaxiTickStep(i)
          => /\ taxis'[i].raised = ""
             /\ taxis'[i].path # NoPath]_vars

\* the tick after the one in which the planner found no path has ended
\* with a TypeError
C21_LaterTickFails ==
    \A i \in TaxiIds : ~(taxis[i].raised = "TypeError" /\ taxis[i].path = NoPath)

\* C22: a tick of a taxi never discards an allocated entry of its fares as
\* stale: an allocated entry is still held after the tick unless the tick
\* could attempt the pick-up, the taxi standing at the origin of the fare at
\* the end of its route.
C22_AllocatedNotStale ==
    [][\A i \in TaxiIds :
          TaxiTickStep(i)
          => \A n \in 1 .. Len(taxis[i].fares) :
                LET f == taxis[i].fares[n]
                IN  f.allocated
                    => \/ \E m \in 1 .. Len(taxis'[i].fares) :
                             /\ taxis'[i].fares[m].time = f.time
                             /\ taxis'[i].fares[m].origin = f.origin
                       \/ (taxis[i].loc = f.origin /\ taxis[i].path = <<>>)]_vars

\* C23: a taxi holds one entry for each fare it has heard advertised: a tick
\* of the dispatcher that advertises k fares, each for the first time,
\* leaves every taxi on duty with k entries more, whatever the origins and
\* destinations of those fares.
C23_OneEntryPerFare ==
    [][(/\ calls' # <<>>
        /\ calls'[1].call = "clockTick"
        /\ \A e \in BoardEntries(fareBoard) : e.price = 0 => e.pricings = 0)
       => \A i \in TaxiIds :
             taxis[i].onDuty
             => Len(taxis'[i].fares)
                   = Len(taxis[i].fares) + Cardinality(CallsOf("broadcastFare")')]_vars

\* the entry of the fares with the key of f, if the fares hold one
EntryOf(fares, f) ==
    {n \in 1 .. Len(fares) : fares[n].time = f.time /\ fares[n].origin = f.origin}

\* the bids taxi i has transmitted in the handler that has just run
BidsOf(i) ==
    {n \in 1 .. Len(calls) : calls[n].call = "transmitFareBid" /\ calls[n].taxi = i}

\* C24: the bid flag of an entry of a taxi's fares changes at most once,
\* from undecided to bid or declined, and the taxi transmits at most one
\* bid for the entry: a flag that is decided is the same after every step,
\* and every bid a tick transmits is the only one of the tick for its entry
\* and is for an entry whose flag was undecided and is now bid.
C24_OneBidPerEntry ==
    [][\A i \in TaxiIds :
          /\ \A n \in 1 .. Len(taxis[i].fares) :
                LET f == taxis[i].fares[n]
                IN  \A m \in EntryOf(taxis'[i].fares, f) :
                       \/ taxis'[i].fares[m].bid = f.bid
                       \/ (f.bid = 0 /\ taxis'[i].fares[m].bid \in {-1, 1})
          /\ \A c \in BidsOf(i)' :
                /\ TaxiTickStep(i)
                /\ \A c2 \in BidsOf(i)' :
                      (calls'[c2].origin = calls'[c].origin
                         /\ calls'[c2].arg = calls'[c].arg) => c2 = c
                /\ \E n \in 1 .. Len(taxis[i].fares) :
                      LET f == taxis[i].fares[n]
                      IN  /\ f.time = calls'[c].arg
                          /\ f.origin = calls'[c].origin
                          /\ f.bid = 0
                          /\ \E m \in EntryOf(taxis'[i].fares, f) :
                                taxis'[i].fares[m].bid = 1]_vars

\* a taxi has ticked again, a tick later, with an entry it has bid for
C24_Witness ==
    \E i \in TaxiIds, k \in 1 .. NumTaxis :
       /\ tickOrder[k] = i
       /\ turn > k
       /\ taxis[i].onDuty
       /\ BidsOf(i) = {}
       /\ \E n \in 1 .. Len(taxis[i].fares) :
             /\ taxis[i].fares[n].bid = 1
             /\ taxis[i].fares[n].time < simTime

\* C25: the bidders of a fare form a set: no taxi occurs more than once
\* among the bidders of one entry of the board.
C25_BiddersDistinct ==
    \A e \in BoardEntries(fareBoard) :
       \A a, b \in 1 .. Len(e.bidders) : e.bidders[a] = e.bidders[b] => a = b

\* the entries of the board b that a tick may allocate: priced, unassigned
\* and with a bidder
Biddable(b) ==
    {e \in BoardEntries(b) : e.price # 0 /\ e.taxi < 0 /\ e.bidders # <<>>}

\* whether a bidder of the entry e is on duty with a positive balance
HasEligibleBidder(e) ==
    \E n \in 1 .. Len(e.bidders) :
       /\ e.bidders[n] \in TaxiIds
       /\ taxis[e.bidders[n]].onDuty
       /\ taxis[e.bidders[n]].account > 0

\* C26: a tick of the dispatcher assigns a fare that is priced, unassigned
\* and has a bidder if and only if one of its bidders is on duty with a
\* positive balance; otherwise the fare is left as it was, to be looked at
\* again by the next tick, and the tick sends as many allocation messages
\* as it assigns fares.
C26_AssignedIffEligible ==
    [][DispatcherTickStep
       => /\ \A e \in Biddable(fareBoard) :
                IF HasEligibleBidder(e)
                THEN \E a \in BoardEntries(fareBoard') :
                        /\ FareKey(a) = FareKey(e)
                        /\ a.taxi >= 0
                        /\ a.bidders = e.bidders
                ELSE e \in BoardEntries(fareBoard')
          /\ Cardinality(CallsOf("allocateFare")')
                = Cardinality({e \in Biddable(fareBoard) : HasEligibleBidder(e)})]_vars

\* a tick of the dispatcher has left a priced fare unassigned whose only
\* bidders are off duty or out of money
C26_Witness ==
    /\ turn = 1
    /\ CallsOf("allocateFare") = {}
    /\ \E e \in Biddable(fareBoard) : ~HasEligibleBidder(e)

\* C27: the balance of a taxi rises only by a payment: a step that raises
\* it is the payment for a fare the taxi has carried, by the price of the
\* fare, and every clock tick of the taxi lowers it by one unit.
C27_BalanceRisesByPaymentOnly ==
    [][\A i \in TaxiIds :
          /\ taxis'[i].account > taxis[i].account
                => \E f \in fareQ \ fareQ' :
                      /\ f.status = "arrived"
                      /\ f.taxi = i
                      /\ taxis'[i].account = taxis[i].account + f.price
          /\ TaxiTickStep(i) => taxis'[i].account = taxis[i].account - Unit]_vars

\* C28: once the dispatcher has recorded the payment for a fare that was
\* picked up and dropped off, the fare is on the board no longer.
C28_PaidFareOffBoard ==
    [][\A f \in fareQ \ fareQ' :
          (f.status = "arrived" /\ revenue' = revenue + f.price)
          => \A e \in BoardEntries(fareBoard') : FareKey(e) # FareKey(f)]_vars

\* C29: the board has no empty level: every origin on it has a destination
\* and every destination of an origin has a call time.
C29_NoEmptyLevel ==
    \A i \in 1 .. Len(fareBoard) :
       /\ Len(fareBoard[i].dests) > 0
       /\ \A j \in 1 .. Len(fareBoard[i].dests) : Len(fareBoard[i].dests[j].times) > 0

\* a cancellation has found its fare, told a taxi, and left the board empty
C29_Witness ==
    /\ Len(calls) = 2
    /\ calls[1].call = "cancelFare"
    /\ calls[1].taxi = -1
    /\ calls[2].call = "cancelFare"
    /\ abandonedRides > 0
    /\ fareBoard = <<>>

\* C30: the taxi a tick of the dispatcher assigns to a fare is an index of
\* the roster and one of the bidders of the fare, and the fare had its
\* price from an earlier tick: the tick that assigns it does not price it.
C30_AssignedFromBiddersOfPricedFare ==
    [][DispatcherTickStep =>
          \A e \in BoardEntries(fareBoard) : \A a \in BoardEntries(fareBoard') :
             (FareKey(a) = FareKey(e) /\ e.taxi < 0 /\ a.taxi >= 0)
             => /\ a.taxi + 1 \in 1 .. Len(Roster)
                /\ \E n \in 1 .. Len(e.bidders) : e.bidders[n] = a.taxi
                /\ e.price # 0
                /\ a.price = e.price
                /\ e.pricings >= 1
                /\ a.pricings = e.pricings]_vars

\* one tick of the dispatcher has assigned a fare priced earlier and priced
\* another fare, which it has left unassigned
C30_Witness ==
    /\ turn = 1
    /\ CallsOf("broadcastFare") # {}
    /\ \E n \in CallsOf("allocateFare") :
          \E e \in BoardEntries(fareBoard) :
             /\ e.origin = calls[n].origin
             /\ e.taxi = calls[n].taxi
             /\ e.pricings = 1
    /\ \E e \in BoardEntries(fareBoard) :
          e.taxi < 0 /\ e.pricings = 1 /\ e.bidders = <<>> /\ e.calltime = simTime

\* the call of _planPath that is followed has returned or raised
SearchDone == taxis[0].search.pc = "done"

\* a call followed to its end has the outcome of planPath
SearchAgrees ==
    SearchDone
    => taxis[0].search.path
          = planPath(taxis[0].map, taxis[0].search.origin, taxis[0].search.destination)

\* C31: the planner terminates on every map with distances that are not
\* negative, cycles and roads of length zero included, for every origin
\* and destination, reachable or not: every call of _planPath comes to its
\* end.
C31_PlannerTerminates == <>SearchDone

\* a search has ended without a path on a map where the origin lies on a
\* cycle of roads of length zero
C31_Witness ==
    /\ SearchDone
    /\ taxis[0].search.path = NoPath
    /\ LET map == taxis[0].map
           o == taxis[0].search.origin
       IN  /\ o \in DOMAIN map
           /\ taxis[0].search.destination \in DOMAIN map
           /\ \E n \in DOMAIN map :
                 /\ n # o
                 /\ n \in DOMAIN map[o] /\ map[o][n][2] = 0
                 /\ o \in DOMAIN map[n] /\ map[n][o][2] = 0

====
